---------------------------- MODULE Spec2Model ----------------------------
(***************************************************************************)
(* A model of the Payments Returns Analytics API (src/main.py, with the    *)
(* PaymentReturn schema of src/schemas.py).                                *)
(*                                                                         *)
(* Time is counted in ticks of 1/TicksPerSecond second, relative to        *)
(* midnight (UTC) of day EpochDay after 1970-01-01.  A handler reads the   *)
(* clock once: its run is short against the ticks of the model.            *)
(* Amounts are counted in thousandths of a dollar (mills), so that the     *)
(* rounding to two decimals is a real operation.                           *)
(* A document is a function from field names to values; a field may be     *)
(* absent (Get gives dict.get).  Python's None is the value None.          *)
(* datetime.utcnow() is naive; timestamp() is taken with the process in    *)
(* UTC.  The storage module (database.py) is not among the sources: insert *)
(* and fetch-all are as the specification describes them.                  *)
(*                                                                         *)
(* Spec      the seven routes over a storage whose inserts succeed         *)
(* SpecFault the seeding path over a storage whose insert may raise        *)
(* SpecAgg   the statistics routes over a collection other writers filled  *)
(***************************************************************************)
EXTENDS Integers, Sequences, FiniteSets

\* ------------------------------------------------------------------ bounds
\* TicksPerSecond: the clock's resolution; EpochDay: the day the service runs
\* (19737 is 2024-01-15); MaxDocs: the records the collection may hold;
\* NumDraws: the outcomes the random generator may give in one iteration;
\* MaxSubTicks, MaxHours: how far past the start the clock is followed.
TicksPerSecond == 2
EpochDay == 19737
MaxDocs == 2
NumDraws == 5
MaxSubTicks == 0
MaxHours == 1

SECOND == TicksPerSecond
HOUR == 3600 * SECOND
DAY == 24 * HOUR
StartClock == 12 * HOUR
Elapsed == {0, 1, HOUR}
DaysParams == {0, 30, 90}

VARIABLES db, store, clock, request, response
vars == <<db, store, clock, request, response>>

\* ------------------------------------------------------- Python primitives
None == "<None>"
Connected == "<Database>"

Max(a, b) == IF a >= b THEN a ELSE b

\* dict.get(field, default)
Get(d, f, default) == IF f \in DOMAIN d THEN d[f] ELSE default

\* Python truthiness of a field value, as `x or "unknown"` reads it
Truthy(v) == v # None /\ v # ""

\* round half to even of n/den, an integer
RoundHalfEven(n, den) ==
    LET q == n \div den
        r == n % den
    IN  IF 2 * r < den THEN q
        ELSE IF 2 * r > den THEN q + 1
        ELSE IF q % 2 = 0 THEN q ELSE q + 1

\* round(x, 2) of an amount in mills: the nearest cent, in mills
Round2(x) == 10 * RoundHalfEven(x, 10)

\* (a - b).days of two datetimes: timedelta normalises with a floor
TimedeltaDays(delta) == delta \div DAY

\* f"{now.timestamp():.0f}": the POSIX seconds of a datetime, to the nearest
\* integer, half to even
TimestampF0(t) == EpochDay * 86400 + RoundHalfEven(t, TicksPerSecond)

\* days since 1970-01-01 to the proleptic Gregorian <<year, month, day>>
CivilFromDays(z0) ==
    LET z == z0 + 719468
        era == z \div 146097
        doe == z - era * 146097
        yoe == (doe - doe \div 1460 + doe \div 36524 - doe \div 146096) \div 365
        doy == doe - (365 * yoe + yoe \div 4 - yoe \div 100)
        mp == (5 * doy + 2) \div 153
        d == doy - (153 * mp + 2) \div 5 + 1
        m == IF mp < 10 THEN mp + 3 ELSE mp - 9
        y == yoe + era * 400 + (IF m <= 2 THEN 1 ELSE 0)
    IN  <<y, m, d>>

\* ts.strftime("%Y-%m-%d"): the zero-padded fields of the date, as a tuple
Strftime(ts) == CivilFromDays(EpochDay + ts \div DAY)

\* the order of two "%Y-%m-%d" strings: lexicographic on the padded fields
StrLess(a, b) ==
    \/ a[1] < b[1]
    \/ a[1] = b[1] /\ a[2] < b[2]
    \/ a[1] = b[1] /\ a[2] = b[2] /\ a[3] < b[3]

\* sorted(keys): the ascending sequence of a set of date strings
RECURSIVE Sorted(_)
Sorted(S) ==
    IF S = {} THEN <<>>
    ELSE LET lo == CHOOSE x \in S : \A y \in S : y = x \/ StrLess(x, y)
         IN  <<lo>> \o Sorted(S \ {lo})

\* mutant: the sum stops after the first record
SumAmount_first(docs) ==
    IF docs = <<>> THEN 0 ELSE Get(Head(docs), "amount", 0)

\* sum(d.get("amount", 0) for d in docs)
RECURSIVE SumAmount(_)
SumAmount(docs) ==
    IF docs = <<>> THEN 0
    ELSE Get(Head(docs), "amount", 0) + SumAmount(Tail(docs))


\* a dict: a function on its keys.  {} is the function on no key.
EmptyDict == [x \in {} |-> 0]
DictGet(out, k, default) == IF k \in DOMAIN out THEN out[k] ELSE default
DictSet(out, k, v) == [x \in DOMAIN out \cup {k} |-> IF x = k THEN v ELSE out[x]]

\* ------------------------------------------------------------------ schema
Reasons == {"insufficient_funds", "card_expired", "fraud_suspected", "disputed",
            "technical_error", "account_closed", "other"}
Statuses == {"pending", "returned", "refunded", "reversed", "chargeback", "resolved"}
PaymentMethods == {"card", "ach", "wire", "wallet"}

\* the field constraints of the PaymentReturn model
PaymentReturnValid(d) ==
    /\ d.amount >= 0
    /\ d.reason \in Reasons
    /\ d.status \in Statuses
    /\ d.payment_method \in PaymentMethods
    /\ d.days_to_return >= 0

\* ------------------------------------------------------------------ seeder
reasons == <<"insufficient_funds", "card_expired", "fraud_suspected", "disputed",
             "technical_error", "account_closed", "other">>
methods == <<"card", "ach", "wire", "wallet">>
regions == <<"US", "EU", "APAC", "LATAM", "MEA">>
segments == <<"consumer", "smb", "enterprise">>
\* mutant: the seeder draws from the whole status enumeration
seed_statuses_all ==
    <<"pending", "returned", "refunded", "reversed", "chargeback", "resolved">>

seed_statuses == <<"returned", "refunded", "reversed", "chargeback", "resolved">>

\* Outcomes of the random calls of one iteration.  uniform(5, 2000) is sampled
\* in mills at both ends and between cents; randint(0, 90) and randint(0, 23)
\* together, as the age in <<days, hours>>, at both ends and around the
\* 30-day line; randint(0, 14) at both ends.
UniformSamples == <<5000, 2000000, 186363, 1999996, 5004>>
AgeSamples == <<<<0, 0>>, <<30, 1>>, <<29, 23>>, <<30, 23>>, <<90, 0>>, <<0, 1>>, <<90, 23>>>>
DaysToReturnSamples == <<0, 14, 7>>
CustomerSamples == <<None, "cust_1000", "cust_9999">>

\* random.choice(seq) when the generator's outcome is k
Choice(seq, k) == seq[(k % Len(seq)) + 1]

\* the outcomes one iteration may draw: NumDraws vectors, one per k
Draws == 0 .. (NumDraws - 1)

\* mutant: the loop stops one iteration early
RangeLen_short(count) == Max(count - 1, 0)

\* range(count): its length
RangeLen(count) == Max(count, 0)

\* the record of iteration i (from 0) of a seed request that read the clock
\* at `now`, when the generator's outcome is k
MakeDoc(now, i, k) ==
    [transaction_id |-> <<"txn", TimestampF0(now), i>>,
     customer_id |-> Choice(CustomerSamples, k),
     amount |-> Round2(Choice(UniformSamples, k)),
     currency |-> "USD",
     reason |-> Choice(reasons, k),
     status |-> Choice(seed_statuses, k),
     payment_method |-> Choice(methods, k),
     region |-> Choice(regions, k),
     customer_segment |-> Choice(segments, k),
     occurred_at |-> now - (Choice(AgeSamples, k)[1] * DAY + Choice(AgeSamples, k)[2] * HOUR),
     days_to_return |-> Choice(DaysToReturnSamples, k)]

\* ----------------------------------------------------------------- storage
\* insert(collection, record): the collection with the record appended
create_document(coll, doc) == Append(coll, doc)

\* fetch_all(collection): every stored record
get_documents(coll) == coll

\* mutant: the handlers never take the unconfigured branch
db_is_None_never == FALSE

\* `db is None`
db_is_None == db = None

\* --------------------------------------------------------------- responses
OK(body) == [status |-> 200, body |-> body]
HTTPException(code, detail) == [status |-> code, body |-> [detail |-> detail]]
NotConfigured == HTTPException(500, "Database not configured")

\* mutant: the failing insert stores its record before it raises
RECURSIVE SeedLoop_stores(_, _, _, _, _, _, _)
SeedLoop_stores(coll, created, i, n, now, ks, failAt) ==
    IF i >= n THEN [store |-> coll, created |-> created, raised |-> FALSE]
    ELSE IF i = failAt
         THEN [store |-> create_document(coll, MakeDoc(now, i, 0)),
               created |-> created, raised |-> TRUE]
    ELSE SeedLoop_stores(create_document(coll, MakeDoc(now, i, ks[i + 1])),
                         created + 1, i + 1, n, now, ks, failAt)

\* the for loop of seed_data from iteration i on: the collection and `created`
\* when it ends.  failAt is the iteration whose insert raises (-1: none).
RECURSIVE SeedLoop(_, _, _, _, _, _, _)
SeedLoop(coll, created, i, n, now, ks, failAt) ==
    IF i >= n THEN [store |-> coll, created |-> created, raised |-> FALSE]
    ELSE IF i = failAt THEN [store |-> coll, created |-> created, raised |-> TRUE]
    ELSE LET pr == MakeDoc(now, i, ks[i + 1])
         IN  IF ~PaymentReturnValid(pr)
             THEN [store |-> coll, created |-> created, raised |-> TRUE]
             ELSE SeedLoop(create_document(coll, pr), created + 1, i + 1, n, now, ks, failAt)

\* ------------------------------------------------------------ aggregations
\* mutant: the comparison is turned round
InLast30_atLeast(d, now) == TimedeltaDays(now - Get(d, "occurred_at", now)) >= 30

\* (now - d.get("occurred_at", now)).days <= 30
InLast30(d, now) == TimedeltaDays(now - Get(d, "occurred_at", now)) <= 30

\* the by_reason loop of summary_stats over docs, from the dict `out`
RECURSIVE ByReason(_, _)
ByReason(docs, out) ==
    IF docs = <<>> THEN out
    ELSE LET r == Get(Head(docs), "reason", "other")
         IN  ByReason(Tail(docs), DictSet(out, r, DictGet(out, r, 0) + 1))

\* the body of GET /stats/summary over docs when the clock reads now
Summary(docs, now) ==
    LET last30 == SelectSeq(docs, LAMBDA d : InLast30(d, now))
    IN  [total_returns |-> Len(docs),
         total_amount |-> Round2(SumAmount(docs)),
         last30_count |-> Len(last30),
         last30_amount |-> Round2(SumAmount(last30)),
         by_reason |-> ByReason(docs, EmptyDict)]

\* mutant: a record exactly at the cutoff is skipped too
BeforeCutoff_inclusive(ts, cutoff) == ts <= cutoff

\* `ts < cutoff`: the record is skipped
BeforeCutoff(ts, cutoff) == ts < cutoff

\* the bucket loop of time_series over docs, from the dict `buckets`
RECURSIVE Buckets(_, _, _, _)
Buckets(docs, cutoff, now, buckets) ==
    IF docs = <<>> THEN buckets
    ELSE LET d == Head(docs)
             ts == Get(d, "occurred_at", now)
             key == Strftime(ts)
             old == DictGet(buckets, key, [count |-> 0, amount |-> 0])
         IN  IF BeforeCutoff(ts, cutoff)
             THEN Buckets(Tail(docs), cutoff, now, buckets)
             ELSE Buckets(Tail(docs), cutoff, now,
                          DictSet(buckets, key,
                                  [count |-> old.count + 1,
                                   amount |-> old.amount + Get(d, "amount", 0)]))

\* sorted(buckets.items()): the keys in ascending order
SortedKeys(buckets) == Sorted(DOMAIN buckets)

\* the body of GET /stats/timeseries?days=days over docs when the clock reads now
TimeSeries(docs, days, now) ==
    LET buckets == Buckets(docs, now - days * DAY, now, EmptyDict)
        keys == SortedKeys(buckets)
    IN  [series |-> [i \in 1 .. Len(keys) |->
                        [date |-> keys[i],
                         count |-> buckets[keys[i]].count,
                         amount |-> Round2(buckets[keys[i]].amount)]]]

\* mutant: the key is the raw field, without `or "unknown"`
KeyOrUnknown_raw(d, field) == Get(d, field, None)

\* d.get(field) or "unknown"
KeyOrUnknown(d, field) ==
    LET v == Get(d, field, None) IN IF Truthy(v) THEN v ELSE "unknown"

\* agg(field) of breakdown over docs, from the dict `out`
RECURSIVE Agg(_, _, _)
Agg(docs, field, out) ==
    IF docs = <<>> THEN out
    ELSE LET key == KeyOrUnknown(Head(docs), field)
         IN  Agg(Tail(docs), field, DictSet(out, key, DictGet(out, key, 0) + 1))

\* the body of GET /stats/breakdown over docs
Breakdown(docs) ==
    [by_method |-> Agg(docs, "payment_method", EmptyDict),
     by_region |-> Agg(docs, "region", EmptyDict),
     by_status |-> Agg(docs, "status", EmptyDict),
     by_segment |-> Agg(docs, "customer_segment", EmptyDict)]

\* ------------------------------------------------------------------- state
\* the clock readings the model follows: a few ticks and hours after the start
ClockOK(now) ==
    /\ (now - StartClock) % HOUR <= MaxSubTicks
    /\ (now - StartClock) \div HOUR <= MaxHours

Req(op, arg) == [op |-> op, arg |-> arg]

Init ==
    /\ db \in {Connected, None}
    /\ store = <<>>
    /\ clock = StartClock
    /\ request = Req("start", 0)
    /\ response = OK([message |-> "started"])

\* Each handler answers a request that arrives dt ticks after the one before
\* it.

\* GET /
read_root(dt) ==
    /\ ClockOK(clock + dt)
    /\ clock' = clock + dt
    /\ request' = Req("root", 0)
    /\ response' = OK([message |-> "Payments Returns Analytics API"])
    /\ UNCHANGED <<db, store>>

\* GET /schema
get_schema(dt) ==
    /\ ClockOK(clock + dt)
    /\ clock' = clock + dt
    /\ request' = Req("schema", 0)
    /\ response' = OK([collections |-> <<"paymentreturn">>])
    /\ UNCHANGED <<db, store>>

\* GET /test
test_database(dt) ==
    /\ ClockOK(clock + dt)
    /\ clock' = clock + dt
    /\ request' = Req("test", 0)
    /\ response' = OK([backend |-> "Running",
                       database |-> IF db_is_None THEN "Not Available" ELSE "Connected"])
    /\ UNCHANGED <<db, store>>

\* the counts a seed request may carry (count is any int)
Counts == -1 .. MaxDocs

\* POST /seed {count}
seed_data(count, dt) ==
    LET now == clock + dt
        n == RangeLen(count)
    IN  /\ ClockOK(now)
        /\ clock' = now
        /\ request' = Req("seed", count)
        /\ db' = db
        /\ IF db_is_None
           THEN /\ store' = store
                /\ response' = NotConfigured
           ELSE /\ Len(store) + n <= MaxDocs
                /\ \E ks \in [1 .. n -> Draws] :
                   LET r == SeedLoop(store, 0, 0, n, now, ks, -1)
                   IN  /\ store' = r.store
                       /\ response' = IF r.raised
                                      THEN HTTPException(500, "Internal Server Error")
                                      ELSE OK([inserted |-> r.created])

\* POST /seed {count} when the insert of iteration failAt raises
seed_data_insert_raises(count, failAt, dt) ==
    LET now == clock + dt
        n == RangeLen(count)
    IN  /\ ~db_is_None
        /\ failAt < n
        /\ ClockOK(now)
        /\ clock' = now
        /\ request' = Req("seed", count)
        /\ db' = db
        /\ Len(store) + failAt <= MaxDocs
        /\ \E ks \in [1 .. failAt -> Draws] :
              LET r == SeedLoop(store, 0, 0, n, now, ks, failAt)
              IN  /\ store' = r.store
                  /\ response' = IF r.raised
                                 THEN HTTPException(500, "Internal Server Error")
                                 ELSE OK([inserted |-> r.created])

\* GET /stats/summary
summary_stats(dt) ==
    /\ ClockOK(clock + dt)
    /\ clock' = clock + dt
    /\ request' = Req("summary", 0)
    /\ response' = IF db_is_None THEN NotConfigured
                   ELSE OK(Summary(get_documents(store), clock + dt))
    /\ UNCHANGED <<db, store>>

\* GET /stats/timeseries?days=days
time_series(days, dt) ==
    /\ ClockOK(clock + dt)
    /\ clock' = clock + dt
    /\ request' = Req("timeseries", days)
    /\ response' = IF db_is_None THEN NotConfigured
                   ELSE OK(TimeSeries(get_documents(store), days, clock + dt))
    /\ UNCHANGED <<db, store>>

\* GET /stats/breakdown
breakdown(dt) ==
    /\ ClockOK(clock + dt)
    /\ clock' = clock + dt
    /\ request' = Req("breakdown", 0)
    /\ response' = IF db_is_None THEN NotConfigured
                   ELSE OK(Breakdown(get_documents(store)))
    /\ UNCHANGED <<db, store>>

Next ==
    \/ \E dt \in Elapsed : read_root(dt)
    \/ \E dt \in Elapsed : get_schema(dt)
    \/ \E dt \in Elapsed : test_database(dt)
    \/ \E dt \in Elapsed, count \in Counts : seed_data(count, dt)
    \/ \E dt \in Elapsed : summary_stats(dt)
    \/ \E dt \in Elapsed, days \in DaysParams : time_series(days, dt)
    \/ \E dt \in Elapsed : breakdown(dt)

Spec == Init /\ [][Next]_vars

\* seeding over a storage whose insert may raise, with the summary to read
\* what stays stored
NextFault ==
    \/ \E dt \in Elapsed, count \in Counts : seed_data(count, dt)
    \/ \E dt \in Elapsed, count \in Counts, failAt \in 0 .. (MaxDocs - 1) :
          seed_data_insert_raises(count, failAt, dt)
    \/ \E dt \in Elapsed : summary_stats(dt)

SpecFault == Init /\ [][NextFault]_vars

\* the same aggregations over a collection that other writers filled: records
\* the schema admits (an optional field null, status "pending") and records
\* that lack a field
WithNull(d, field) == [d EXCEPT ![field] = None]
Without(d, fields) == [f \in DOMAIN d \ fields |-> d[f]]

StoredDocs ==
    LET a == MakeDoc(StartClock, 0, 0)
        b == MakeDoc(StartClock, 1, 1)
    IN  {MakeDoc(StartClock, 0, k) : k \in Draws}
        \cup {WithNull(a, "region"),
              WithNull(WithNull(b, "customer_segment"), "region"),
              [a EXCEPT !.status = "pending", !.region = ""],
              Without(b, {"region", "customer_segment", "reason"}),
              Without(a, {"payment_method", "status", "amount", "occurred_at"})}

InitAgg ==
    /\ db = Connected
    /\ store \in UNION {[1 .. n -> StoredDocs] : n \in 0 .. MaxDocs}
    /\ clock = StartClock
    /\ request = Req("start", 0)
    /\ response = OK([message |-> "started"])

NextAgg ==
    \/ \E dt \in Elapsed : summary_stats(dt)
    \/ \E dt \in Elapsed, days \in DaysParams : time_series(days, dt)
    \/ \E dt \in Elapsed : breakdown(dt)

SpecAgg == InitAgg /\ [][NextAgg]_vars

\* ------------------------------------------------------------------ claims
\* What the claims speak of, counted over the collection directly.
Idx == 1 .. Len(store)
AmountAt(i) == Get(store[i], "amount", 0)
OccurredAt(i) == Get(store[i], "occurred_at", clock)

RECURSIVE SumOver(_, _)
SumOver(S, f) ==
    IF S = {} THEN 0
    ELSE LET x == CHOOSE y \in S : TRUE IN f[x] + SumOver(S \ {x}, f)

Amounts == [i \in Idx |-> AmountAt(i)]
DictTotal(m) == SumOver(DOMAIN m, m)

Answered(op) == request.op = op /\ response.status = 200

DataOps == {"seed", "summary", "timeseries", "breakdown"}
PlainOps == {"root", "schema", "test"}

\* C1: a seed request with count = N >= 0 on a configured store appends exactly
\* N records to the collection, leaves the earlier ones as they were, and
\* answers {inserted: N}; count = 0 appends nothing and answers {inserted: 0}.
C1_SeedInsertsExactlyN ==
    [][(request'.op = "seed" /\ db # None /\ request'.arg >= 0) =>
          /\ Len(store') = Len(store) + request'.arg
          /\ SubSeq(store', 1, Len(store)) = store
          /\ response' = OK([inserted |-> request'.arg])]_vars

C1_Witness ==
    /\ db # None
    /\ request = Req("seed", 2)
    /\ response = OK([inserted |-> 2])
    /\ Len(store) = 2

\* C2: with the storage handle unconfigured every data endpoint answers the
\* fixed error (500, "Database not configured") and nothing is ever stored,
\* while /, /schema and /test still succeed.
C2_UnconfiguredFailsFast ==
    db = None =>
        /\ store = <<>>
        /\ request.op \in DataOps =>
              response = [status |-> 500, body |-> [detail |-> "Database not configured"]]
        /\ request.op \in PlainOps => response.status = 200

C2_Witness ==
    /\ db = None
    /\ request.op = "seed"
    /\ request.arg = 2
    /\ response.status = 500
    /\ response.body.detail = "Database not configured"

\* C3: after any sequence of seed requests, the summary reports total_returns
\* as the number of stored records and total_amount as the sum of their
\* amounts, a whole number of cents; on an empty collection every figure is 0
\* and by_reason is the empty mapping.
C3_SummaryTotals ==
    Answered("summary") =>
        /\ response.body.total_returns = Len(store)
        /\ response.body.total_amount = SumOver(Idx, Amounts)
        /\ response.body.total_amount % 10 = 0
        /\ store = <<>> =>
              /\ response.body.total_returns = 0
              /\ response.body.total_amount = 0
              /\ response.body.last30_count = 0
              /\ response.body.last30_amount = 0
              /\ DOMAIN response.body.by_reason = {}

C3_Witness ==
    /\ Answered("summary")
    /\ Len(store) = 2
    /\ response.body.total_returns = 2
    /\ response.body.total_amount = 2000000 + 186360

\* C4: the summary's last30_count is the number of stored records with
\* now - 30 days <= occurred_at <= now, and last30_amount the sum of their
\* amounts; a record 30 days and 1 hour old is not counted.
C4_Last30IsThirtyDays ==
    Answered("summary") =>
        LET recent == {i \in Idx : /\ clock - 30 * DAY <= OccurredAt(i)
                                   /\ OccurredAt(i) <= clock}
        IN  /\ response.body.last30_count = Cardinality(recent)
            /\ response.body.last30_amount = SumOver(recent, Amounts)

\* C5: the time series for days = D counts only the records with
\* occurred_at >= now - D days; its entries are in strictly ascending date
\* order, no date twice; each entry holds the number and the summed amount of
\* the in-window records of its calendar date; every entry counts at least
\* one record, every in-window record's date has an entry, and the counts sum
\* to the number of in-window records.
C5_TimeSeries ==
    Answered("timeseries") =>
        LET series == response.body.series
            window == {i \in Idx : OccurredAt(i) >= clock - request.arg * DAY}
            DayOf(i) == OccurredAt(i) \div DAY
            On(e) == {i \in window : Strftime(OccurredAt(i)) = series[e].date}
        IN  /\ \A a, b \in DOMAIN series :
                  a < b => /\ series[a].date # series[b].date
                           /\ \A i \in On(a), j \in On(b) : DayOf(i) < DayOf(j)
            /\ \A e \in DOMAIN series :
                  /\ series[e].count >= 1
                  /\ series[e].count = Cardinality(On(e))
                  /\ series[e].amount = SumOver(On(e), Amounts)
                  /\ \A i, j \in On(e) : DayOf(i) = DayOf(j)
            /\ \A i \in window : \E e \in DOMAIN series : i \in On(e)
            /\ SumOver(DOMAIN series, [e \in DOMAIN series |-> series[e].count]) = Cardinality(window)

C5_Witness ==
    /\ Answered("timeseries")
    /\ request.arg = 90
    /\ Len(store) = 2
    /\ Len(response.body.series) = 2
    /\ response.body.series[1].date = <<2023, 10, 17>>
    /\ response.body.series[2].date = <<2024, 1, 15>>

\* C6: each mapping of the breakdown has values that sum to the number of
\* stored records; a record whose field is null or missing is counted under
\* "unknown" and under no other key.
C6_Breakdown ==
    Answered("breakdown") =>
        LET fieldOf == [by_method |-> "payment_method", by_region |-> "region",
                        by_status |-> "status", by_segment |-> "customer_segment"]
        IN  \A name \in DOMAIN fieldOf :
               LET m == response.body[name]
                   f == fieldOf[name]
                   absent == {i \in Idx : f \notin DOMAIN store[i] \/ store[i][f] = None}
                   With(k) == {i \in Idx : f \in DOMAIN store[i] /\ store[i][f] = k}
               IN  /\ DictTotal(m) = Len(store)
                   /\ None \notin DOMAIN m
                   /\ absent # {} => "unknown" \in DOMAIN m
                   /\ \A k \in DOMAIN m \ {"unknown"} : m[k] = Cardinality(With(k))
                   /\ "unknown" \in DOMAIN m =>
                         m["unknown"] = Cardinality(absent \cup With("unknown") \cup With(""))

C6_Witness ==
    /\ Answered("breakdown")
    /\ Len(store) = 2
    /\ "region" \notin DOMAIN store[1]
    /\ "region" \in DOMAIN store[2]
    /\ store[2].region = None
    /\ response.body.by_region = [unknown |-> 2]

\* C7 as stated: a seed request that fails because an insert raises leaves none
\* of its records in the collection.
C7_FailedSeedLeavesNothing ==
    [][(request'.op = "seed" /\ response'.status # 200) => store' = store]_vars

\* C7 as amended: when the insert of iteration k raises, the request answers
\* an error and the k records inserted before it stay in the collection, after
\* the records that were there; nothing is rolled back.
C7_FailedSeedKeepsEarlierInserts ==
    [][(request'.op = "seed" /\ response'.status # 200 /\ db # None) =>
          \A failAt \in 0 .. (MaxDocs - 1) :
             seed_data_insert_raises(request'.arg, failAt, clock' - clock) =>
                /\ response'.status = 500
                /\ Len(store') = Len(store) + failAt
                /\ SubSeq(store', 1, Len(store)) = store
                /\ \A i \in 1 .. failAt :
                      store'[Len(store) + i].transaction_id[3] = i - 1]_vars

C7_Witness ==
    /\ request = Req("seed", 2)
    /\ response = HTTPException(500, "Internal Server Error")
    /\ Len(store) = 1

\* C8: every stored record has amount in [5, 2000], days_to_return in [0, 14],
\* reason and payment_method in their enumerations and a status other than
\* "pending".
C8_SeededRecordsInRange ==
    \A i \in Idx :
        /\ store[i].amount >= 5000
        /\ store[i].amount <= 2000000
        /\ store[i].days_to_return \in 0 .. 14
        /\ store[i].reason \in Reasons
        /\ store[i].payment_method \in PaymentMethods
        /\ store[i].status \in {"returned", "refunded", "reversed", "chargeback", "resolved"}

C8_Witness ==
    /\ Len(store) = 2
    /\ store[1].amount = 5000
    /\ store[2].amount = 2000000
    /\ store[2].days_to_return = 14
    /\ store[1].status = "returned"

\* C9: a GET request leaves the collection as it is; one repeated at the same
\* clock reading gives the same answer; and from one summary to the next, with
\* no write between them, total_returns, total_amount and by_reason stay the
\* same while last30_count and last30_amount do not grow.
C9_ReadsRepeat ==
    [][/\ request'.op # "seed" => store' = store
       /\ (request'.op # "seed" /\ request' = request /\ clock' = clock) =>
             response' = response
       /\ (request.op = "summary" /\ request'.op = "summary"
             /\ response.status = 200 /\ response'.status = 200) =>
             /\ response'.body.total_returns = response.body.total_returns
             /\ response'.body.total_amount = response.body.total_amount
             /\ response'.body.by_reason = response.body.by_reason
             /\ response'.body.last30_count <= response.body.last30_count
             /\ response'.body.last30_amount <= response.body.last30_amount]_vars

C9_Witness ==
    /\ Answered("summary")
    /\ clock = StartClock + HOUR
    /\ Len(store) = 1
    /\ response.body.total_returns = 1
    /\ response.body.last30_count = 0

\* C10: any two distinct stored records have different transaction_id values.
C10_TransactionIdsDistinct ==
    \A i, j \in Idx : i # j => store[i].transaction_id # store[j].transaction_id

=============================================================================
